---- MODULE Spec2Model ----
(***************************************************************************)
(* Model of codespace-agent/app.py: the /fs/search handler (search_files)  *)
(* and the /exec handler (exec_command).  One request is handled at a      *)
(* time; the filesystem is fixed for the whole behaviour.                  *)
(*                                                                         *)
(* Text is a sequence of one-character strings.  "xFF" stands for a byte   *)
(* that is not valid UTF-8.                                                *)
(***************************************************************************)
EXTENDS Integers, Sequences, FiniteSets, TLC

VARIABLES fs, pc, sreq, files, walkIdx, fileIdx, lineNo, matches, failedAt,
          ioLog, outcome, ereq, proc, now, result

vars == <<fs, pc, sreq, files, walkIdx, fileIdx, lineNo, matches, failedAt,
          ioLog, outcome, ereq, proc, now, result>>

searchVars == <<sreq, files, walkIdx, fileIdx, lineNo, matches, failedAt, ioLog>>
execVars == <<ereq, proc, now, result>>

(***************************************************************************)
(* Bounds                                                                  *)
(***************************************************************************)
MaxLines == 2
MaxCap == 2
MaxTimeout == 1

(***************************************************************************)
(* Text helpers                                                            *)
(***************************************************************************)
Whitespace == {" ", "\t", "\n", "\r"}

\* str.rstrip() with no argument: drops every trailing whitespace character
RECURSIVE rstrip(_)
rstrip(s) ==
    IF s = <<>> THEN s
    ELSE IF s[Len(s)] \in Whitespace THEN rstrip(SubSeq(s, 1, Len(s) - 1))
    ELSE s

\* decoding with errors='ignore': undecodable bytes are dropped
DecodeIgnore(bytes) == SelectSeq(bytes, LAMBDA c : c # "xFF")

\* decoding with errors='strict' succeeds only without undecodable bytes
DecodableStrict(bytes) == \A i \in 1..Len(bytes) : bytes[i] # "xFF"

\* re.compile raises re.error on an unbalanced parenthesis
ReValid(p) == \A i \in 1..Len(p) : p[i] # "("

\* compiled.search(s) for the literal patterns of the model: p occurs in s
ReSearch(p, s) ==
    \E i \in 1..(Len(s) - Len(p) + 1) : SubSeq(s, i, i + Len(p) - 1) = p

(***************************************************************************)
(* Filesystem                                                              *)
(***************************************************************************)
DirD == <<"d">>
FileA == <<"d", "/", "a">>
FileB == <<"d", "/", "b">>
DirS == <<"d", "/", "s">>
Missing == <<"x">>

FilePaths == {FileA, FileB}
DirPaths == {DirD, DirS}

LineSet == { <<" ", "a", " ", "\t", "\n">>,
             <<"z", "\n">>,
             <<"a", "xFF", "\n">> }

SeqsUpTo(S, n) == UNION { [1..k -> S] : k \in 0..n }

Contents == SeqsUpTo(LineSet, MaxLines)

\* enumeration orders of search_path.rglob("*") for root d
Orders == { <<FileA, DirS, FileB>>, <<DirS, FileB, FileA>> }

Exists(p) == p \in FilePaths \cup DirPaths
IsFile(p) == p \in FilePaths

(***************************************************************************)
(* Requests                                                                *)
(***************************************************************************)
Patterns == { <<"a">>, <<"(">> }
NoFilePattern == [present |-> FALSE, text |-> <<>>]
FilePatterns == { NoFilePattern,
                  [present |-> TRUE, text |-> <<>>],
                  [present |-> TRUE, text |-> <<"/", "b">>],
                  [present |-> TRUE, text |-> <<"(">>] }
Roots == {DirD, FileA, Missing}
CapValues == (-1)..MaxCap

SearchRequests == [pattern : Patterns, path : Roots,
                   file_pattern : FilePatterns, max_results : CapValues]

NoSearch == [pattern |-> <<>>, path |-> <<>>,
             file_pattern |-> NoFilePattern, max_results |-> 0]

\* "if req.file_pattern:" is Python truthiness: None and "" are both false
FilePatternTruthy(fp) == fp.present /\ fp.text # <<>>

NoFail == -1

SearchMatch(p, n, c) == [file_path |-> p, line_number |-> n, line_content |-> c]

\* variant: the cap test is off by one
CapReachedOffByOne(ms, cap) == Len(ms) > cap

\* "len(matches) >= req.max_results"
CapReached(ms, cap) == Len(ms) >= cap

\* variant: the path filter is never applied
FileSelectedAnyFile(fp, p) == IsFile(p)

\* the condition of the list comprehensions that build files_to_search
FileSelected(fp, p) ==
    IsFile(p) /\ (FilePatternTruthy(fp) => ReSearch(fp.text, p))

NoExec == [timeout_seconds |-> 0, cwd_ok |-> TRUE]
NoProc == [state |-> "none", status |-> 0, out |-> <<>>, err |-> <<>>]

Init ==
    /\ fs \in [order : Orders, content : [FilePaths -> Contents]]
    /\ pc = "idle"
    /\ sreq = NoSearch
    /\ files = <<>>
    /\ walkIdx = 1
    /\ fileIdx = 1
    /\ lineNo = 0
    /\ matches = <<>>
    /\ failedAt = [p \in FilePaths |-> NoFail]
    /\ ioLog = <<>>
    /\ outcome = "none"
    /\ ereq = NoExec
    /\ proc = NoProc
    /\ now = 0
    /\ result = <<>>

(***************************************************************************)
(* /fs/search                                                              *)
(***************************************************************************)
SearchRequest ==
    /\ pc = "idle"
    /\ \E r \in SearchRequests : sreq' = r
    /\ pc' = "exists"
    /\ files' = <<>>
    /\ walkIdx' = 1
    /\ fileIdx' = 1
    /\ lineNo' = 0
    /\ matches' = <<>>
    /\ failedAt' = [p \in FilePaths |-> NoFail]
    /\ ioLog' = <<>>
    /\ outcome' = "none"
    /\ UNCHANGED <<fs, execVars>>

\* if not search_path.exists(): raise HTTPException(404)
CheckExists ==
    /\ pc = "exists"
    /\ ioLog' = Append(ioLog, "exists")
    /\ IF Exists(sreq.path)
       THEN /\ pc' = "compile"
            /\ outcome' = outcome
       ELSE /\ pc' = "done"
            /\ outcome' = "HTTP404"
    /\ UNCHANGED <<fs, sreq, files, walkIdx, fileIdx, lineNo, matches, failedAt, execVars>>

\* matches = []; pattern = re.compile(req.pattern)
CompilePattern ==
    /\ pc = "compile"
    /\ matches' = <<>>
    /\ IF ReValid(sreq.pattern)
       THEN /\ pc' = "select"
            /\ outcome' = outcome
       ELSE /\ pc' = "done"
            /\ outcome' = "re.error"
    /\ UNCHANGED <<fs, sreq, files, walkIdx, fileIdx, lineNo, failedAt, ioLog, execVars>>

\* if search_path.is_file(): ... else: if req.file_pattern: re.compile(...)
SelectFiles ==
    /\ pc = "select"
    /\ ioLog' = Append(ioLog, "is_file")
    /\ IF IsFile(sreq.path)
       THEN /\ files' = <<sreq.path>>
            /\ pc' = "scan"
            /\ outcome' = outcome
       ELSE IF FilePatternTruthy(sreq.file_pattern) /\ ~ReValid(sreq.file_pattern.text)
       THEN /\ files' = files
            /\ pc' = "done"
            /\ outcome' = "re.error"
       ELSE /\ files' = <<>>
            /\ pc' = "walk"
            /\ outcome' = outcome
    /\ walkIdx' = 1
    /\ UNCHANGED <<fs, sreq, fileIdx, lineNo, matches, failedAt, execVars>>

\* one element of search_path.rglob("*") through the comprehension's filter
WalkStep ==
    /\ pc = "walk"
    /\ IF walkIdx <= Len(fs.order)
       THEN /\ ioLog' = ioLog \o <<"rglob", "is_file">>
            /\ files' = IF FileSelected(sreq.file_pattern, fs.order[walkIdx])
                        THEN Append(files, fs.order[walkIdx])
                        ELSE files
            /\ walkIdx' = walkIdx + 1
            /\ pc' = pc
       ELSE /\ pc' = "scan"
            /\ UNCHANGED <<ioLog, files, walkIdx>>
    /\ UNCHANGED <<fs, sreq, fileIdx, lineNo, matches, failedAt, outcome, execVars>>

\* head of "for file_path in files_to_search", the cap test and a successful open
NextFile ==
    /\ pc = "scan"
    /\ IF fileIdx > Len(files) \/ CapReached(matches, sreq.max_results)
       THEN /\ pc' = "respond"
            /\ UNCHANGED <<ioLog, lineNo>>
       ELSE /\ pc' = "lines"
            /\ ioLog' = Append(ioLog, "open")
            /\ lineNo' = 0
    /\ UNCHANGED <<fs, sreq, files, walkIdx, fileIdx, matches, failedAt, outcome, execVars>>

\* open() raises: except Exception: continue
OpenFails ==
    /\ pc = "scan"
    /\ fileIdx <= Len(files)
    /\ ~CapReached(matches, sreq.max_results)
    /\ ioLog' = Append(ioLog, "open")
    /\ failedAt' = [failedAt EXCEPT ![files[fileIdx]] = 0]
    /\ fileIdx' = fileIdx + 1
    /\ UNCHANGED <<fs, pc, sreq, files, walkIdx, lineNo, matches, outcome, execVars>>

\* one iteration of "for line_num, line in enumerate(f, 1)"
ReadLine ==
    /\ pc = "lines"
    /\ ioLog' = Append(ioLog, "readline")
    /\ LET path == files[fileIdx]
           raw == fs.content[path]
       IN IF lineNo >= Len(raw)
          THEN /\ fileIdx' = fileIdx + 1
               /\ pc' = "scan"
               /\ UNCHANGED <<lineNo, matches>>
          ELSE LET line == DecodeIgnore(raw[lineNo + 1])
                   hit == ReSearch(sreq.pattern, line)
                   ms == IF hit
                         THEN Append(matches, SearchMatch(path, lineNo + 1, rstrip(line)))
                         ELSE matches
               IN /\ matches' = ms
                  /\ lineNo' = lineNo + 1
                  /\ IF hit /\ CapReached(ms, sreq.max_results)
                     THEN /\ fileIdx' = fileIdx + 1
                          /\ pc' = "scan"
                     ELSE /\ fileIdx' = fileIdx
                          /\ pc' = pc
    /\ UNCHANGED <<fs, sreq, files, walkIdx, failedAt, outcome, execVars>>

\* variant: the exception of a failing read is not caught
ReadFailsAborts ==
    /\ pc = "lines"
    /\ ioLog' = Append(ioLog, "readline")
    /\ failedAt' = [failedAt EXCEPT ![files[fileIdx]] = lineNo]
    /\ outcome' = "OSError"
    /\ pc' = "done"
    /\ UNCHANGED <<fs, sreq, files, walkIdx, fileIdx, lineNo, matches, execVars>>

\* reading the next line raises: except Exception: continue
ReadFails ==
    /\ pc = "lines"
    /\ ioLog' = Append(ioLog, "readline")
    /\ failedAt' = [failedAt EXCEPT ![files[fileIdx]] = lineNo]
    /\ fileIdx' = fileIdx + 1
    /\ pc' = "scan"
    /\ UNCHANGED <<fs, sreq, files, walkIdx, lineNo, matches, outcome, execVars>>

\* return SearchResponse(pattern, matches, total_matches=len(matches))
Respond ==
    /\ pc = "respond"
    /\ outcome' = "SearchResponse"
    /\ pc' = "done"
    /\ UNCHANGED <<fs, searchVars, execVars>>

(***************************************************************************)
(* /exec                                                                   *)
(***************************************************************************)
ExitStatuses == {-9, 0, 3}
Outputs == { <<>>, <<"h">>, <<"xFF">> }
ExecRequests == [timeout_seconds : 0..MaxTimeout, cwd_ok : BOOLEAN]

ExecResponse(code, out, err) == [exit_code |-> code, stdout |-> out, stderr |-> err]

ExecRequest ==
    /\ pc = "idle"
    /\ \E r \in ExecRequests : ereq' = r
    /\ pc' = "spawn"
    /\ proc' = NoProc
    /\ now' = 0
    /\ result' = <<>>
    /\ outcome' = "none"
    /\ UNCHANGED <<fs, searchVars>>

\* subprocess.run(..., cwd=cwd, shell=True, ...) starts the shell
Spawn ==
    /\ pc = "spawn"
    /\ IF ereq.cwd_ok
       THEN /\ proc' = [proc EXCEPT !.state = "running"]
            /\ pc' = "wait"
            /\ outcome' = outcome
       ELSE /\ proc' = proc
            /\ pc' = "done"
            /\ outcome' = "FileNotFoundError"
    /\ UNCHANGED <<fs, searchVars, ereq, now, result>>

\* one second passes while the command runs
Tick ==
    /\ pc = "wait"
    /\ proc.state = "running"
    /\ now < ereq.timeout_seconds
    /\ now' = now + 1
    /\ UNCHANGED <<fs, pc, searchVars, outcome, ereq, proc, result>>

\* the command exits by itself with some status and some captured output
ProcExit ==
    /\ pc = "wait"
    /\ proc.state = "running"
    /\ \E st \in ExitStatuses, o \in Outputs, e \in Outputs :
          proc' = [state |-> "exited", status |-> st, out |-> o, err |-> e]
    /\ UNCHANGED <<fs, pc, searchVars, outcome, ereq, now, result>>

\* variant: the timeout is answered with what was captured so far
DeadlineFiresReturns ==
    /\ pc = "wait"
    /\ proc.state = "running"
    /\ now >= ereq.timeout_seconds
    /\ proc' = [proc EXCEPT !.state = "killed"]
    /\ outcome' = "ExecResponse"
    /\ result' = <<ExecResponse(-9, <<>>, <<>>)>>
    /\ pc' = "done"
    /\ UNCHANGED <<fs, searchVars, ereq, now>>

\* except subprocess.TimeoutExpired: raise HTTPException(408)
DeadlineFires ==
    /\ pc = "wait"
    /\ proc.state = "running"
    /\ now >= ereq.timeout_seconds
    /\ proc' = [proc EXCEPT !.state = "killed"]
    /\ outcome' = "HTTP408"
    /\ result' = <<>>
    /\ pc' = "done"
    /\ UNCHANGED <<fs, searchVars, ereq, now>>

\* subprocess.run returns (text=True decodes the captured output strictly);
\* return ExecResponse(exit_code=result.returncode, ...)
ExecReturn ==
    /\ pc = "wait"
    /\ proc.state = "exited"
    /\ IF DecodableStrict(proc.out) /\ DecodableStrict(proc.err)
       THEN /\ outcome' = "ExecResponse"
            /\ result' = <<ExecResponse(proc.status, proc.out, proc.err)>>
       ELSE /\ outcome' = "UnicodeDecodeError"
            /\ result' = <<>>
    /\ pc' = "done"
    /\ UNCHANGED <<fs, searchVars, ereq, proc, now>>

\* the request is over; the server waits for the next one
Finish ==
    /\ pc = "done"
    /\ pc' = "idle"
    /\ sreq' = NoSearch
    /\ files' = <<>>
    /\ walkIdx' = 1
    /\ fileIdx' = 1
    /\ lineNo' = 0
    /\ matches' = <<>>
    /\ failedAt' = [p \in FilePaths |-> NoFail]
    /\ ioLog' = <<>>
    /\ outcome' = "none"
    /\ ereq' = NoExec
    /\ proc' = NoProc
    /\ now' = 0
    /\ result' = <<>>
    /\ UNCHANGED fs

Next ==
    \/ SearchRequest
    \/ CheckExists
    \/ CompilePattern
    \/ SelectFiles
    \/ WalkStep
    \/ NextFile
    \/ OpenFails
    \/ ReadLine
    \/ ReadFails
    \/ Respond
    \/ ExecRequest
    \/ Spawn
    \/ Tick
    \/ ProcExit
    \/ DeadlineFires
    \/ ExecReturn
    \/ Finish

Spec == Init /\ [][Next]_vars

(***************************************************************************)
(* Properties                                                              *)
(***************************************************************************)
Returned == pc = "done" /\ outcome = "SearchResponse"

Pairs(ms) == [i \in 1..Len(ms) |-> <<ms[i].file_path, ms[i].line_number>>]

Take(s, n) == SubSeq(s, 1, IF n < Len(s) THEN n ELSE Len(s))

IsPrefixOf(s, t) == Len(s) <= Len(t) /\ SubSeq(t, 1, Len(s)) = s

LineMatches(p, n) == ReSearch(sreq.pattern, DecodeIgnore(fs.content[p][n]))

\* the (file, line number) pairs of the first k lines of p that match
HitsUpTo(p, k) ==
    SelectSeq([n \in 1..k |-> <<p, n>>], LAMBDA pr : LineMatches(pr[1], pr[2]))

RECURSIVE HitsOver(_, _)
HitsOver(fseq, upto) ==
    IF fseq = <<>> THEN <<>>
    ELSE HitsUpTo(Head(fseq), upto[Head(fseq)]) \o HitsOver(Tail(fseq), upto)

WholeFile == [p \in FilePaths |-> Len(fs.content[p])]
ReadPart == [p \in FilePaths |->
               IF failedAt[p] = NoFail THEN Len(fs.content[p]) ELSE failedAt[p]]
UnfailedOnly == [p \in FilePaths |->
                   IF failedAt[p] = NoFail THEN Len(fs.content[p]) ELSE 0]

\* every matching line of every candidate file, in traversal order
ALL == HitsOver(files, WholeFile)
\* the matching lines that were delivered before a read failure, if any
ALLRead == HitsOver(files, ReadPart)
\* the matching lines of the candidates whose read did not fail
ALLUnfailed == HitsOver(files, UnfailedOnly)

Failed == {p \in FilePaths : failedAt[p] # NoFail}
IsBinary(p) == \E n \in 1..Len(fs.content[p]) : ~DecodableStrict(fs.content[p][n])

StripNewline(s) ==
    IF s # <<>> /\ s[Len(s)] = "\n" THEN SubSeq(s, 1, Len(s) - 1) ELSE s

\* C1: a returned search result never has more matches than max_results.
C1_AtMostMaxResults == Returned => Len(matches) <= sreq.max_results

\* C2 (as stated): the returned matches are the first max_results entries of
\* ALL, the matching lines of every candidate file in traversal order.
C2_PrefixOfAllLines == Returned => Pairs(matches) = Take(ALL, sreq.max_results)

\* C2 (amended): the returned matches are the first max_results entries of the
\* matching lines that the scan could read: for a candidate whose open or read
\* failed, only the lines delivered before the failure count.
C2_PrefixOfReadLines == Returned => Pairs(matches) = Take(ALLRead, sreq.max_results)

C2_Witness ==
    /\ Returned
    /\ sreq.max_results >= 1
    /\ Len(ALLRead) > sreq.max_results
    /\ Failed # {}
    /\ Len(matches) = sreq.max_results

\* C3 (as stated): with file_pattern supplied, for a directory or a single-file
\* root, file_pattern matches somewhere in every returned file_path.
C3_FilterAnyRoot ==
    (Returned /\ sreq.file_pattern.present /\ ReValid(sreq.file_pattern.text)) =>
        \A i \in 1..Len(matches) :
            ReSearch(sreq.file_pattern.text, matches[i].file_path)

\* C3 (amended): with file_pattern supplied and a directory root, file_pattern
\* matches somewhere in every returned file_path; a single-file root is the only
\* candidate whatever file_pattern is; with file_pattern omitted every file
\* under a directory root is a candidate.
C3_FilterDirectoryRoot ==
    Returned =>
        /\ (sreq.file_pattern.present /\ ~IsFile(sreq.path)) =>
              \A i \in 1..Len(matches) :
                  ReSearch(sreq.file_pattern.text, matches[i].file_path)
        /\ IsFile(sreq.path) => files = <<sreq.path>>
        /\ (~sreq.file_pattern.present /\ ~IsFile(sreq.path)) =>
              files = SelectSeq(fs.order, IsFile)

C3_Witness ==
    /\ Returned
    /\ sreq.path = DirD
    /\ sreq.file_pattern.present
    /\ sreq.file_pattern.text = <<"/", "b">>
    /\ matches # <<>>
    /\ \E n \in 1..Len(fs.content[FileA]) : LineMatches(FileA, n)

\* C4: a candidate that cannot be opened or read never makes the search fail;
\* the result holds the matches of the other candidates, in order, all of them
\* unless the cap was reached.
C4_FailureIsolated ==
    (pc = "done" /\ Failed # {}) =>
        /\ outcome = "SearchResponse"
        /\ LET kept == SelectSeq(matches, LAMBDA m : m.file_path \notin Failed)
           IN /\ IsPrefixOf(Pairs(kept), ALLUnfailed)
              /\ Len(matches) < sreq.max_results => Pairs(kept) = ALLUnfailed

C4_Witness ==
    /\ pc = "done"
    /\ Len(files) = 2
    /\ failedAt[files[1]] > 0
    /\ failedAt[files[2]] = NoFail
    /\ \E i \in 1..Len(matches) : matches[i].file_path = files[2]

\* C5: an undecodable/binary candidate, or one whose read fails at any point,
\* is skipped: no returned match has its path.
C5_FailedOrBinarySkipped ==
    Returned =>
        \A i \in 1..Len(matches) :
            /\ matches[i].file_path \notin Failed
            /\ ~IsBinary(matches[i].file_path)

\* C6: a request with an invalid pattern, or an invalid supplied file_pattern,
\* fails with the invalid-pattern failure before any filesystem access.
C6_InvalidPatternFailsFirst ==
    (/\ pc = "done"
     /\ sreq # NoSearch
     /\ \/ ~ReValid(sreq.pattern)
        \/ sreq.file_pattern.present /\ ~ReValid(sreq.file_pattern.text))
    => (outcome = "re.error" /\ ioLog = <<>>)

\* C7: when the deadline fires on a command that has not exited, the call ends
\* with the timeout failure and returns no exit code, stdout or stderr.
C7_TimeoutNeverReturnsResult ==
    /\ (pc = "done" /\ proc.state = "killed") =>
          (outcome = "HTTP408" /\ result = <<>>)
    /\ outcome = "ExecResponse" => proc.state = "exited"

C7_Witness ==
    /\ pc = "done"
    /\ proc.state = "killed"
    /\ ereq.timeout_seconds >= 1
    /\ now = ereq.timeout_seconds

\* C8: when the command exits before the deadline the call returns an
\* ExecResponse whose exit_code is the exit status, zero or not.
C8_ExitReturnsStatus ==
    (pc = "done" /\ proc.state = "exited") =>
        /\ outcome = "ExecResponse"
        /\ Len(result) = 1
        /\ result[1].exit_code = proc.status

\* C9: once the number of collected matches has reached max_results (a cap of
\* zero or more), no further line is read, no candidate is opened and no
\* traversal step is performed before the result is returned.
C9_NoIOAfterCap ==
    [][(/\ pc \in {"select", "walk", "scan", "lines", "respond"}
        /\ sreq.max_results >= 0
        /\ CapReached(matches, sreq.max_results))
       => \A i \in (Len(ioLog) + 1)..Len(ioLog') :
              ioLog'[i] \notin {"rglob", "open", "readline"}]_vars

\* C10: line_number is the 1-based index of the matching line and line_content
\* is that line with only its trailing newline removed.
C10_OnlyNewlineStripped ==
    Returned =>
        \A i \in 1..Len(matches) :
            LET m == matches[i]
            IN /\ m.line_number \in 1..Len(fs.content[m.file_path])
               /\ m.line_content =
                     StripNewline(DecodeIgnore(fs.content[m.file_path][m.line_number]))

====
